---- MODULE Spec2Model ----
(***************************************************************************)
(* grice: the dynamic query-construction engine of grice/db_service.py.    *)
(*                                                                         *)
(* The model follows DBService.query_table line by line: the catalog       *)
(* lookup, the projection (names_to_columns), pagination, the filter       *)
(* composer (ColumnFilter.column, get_filter_expression(s),                *)
(* apply_column_filters), the sort composer, the join resolver, the        *)
(* scoped connection, execution and row shaping.                           *)
(* The catalog calls get_tables and get_table are modelled over the        *)
(* catalogs a reflection can give (CatalogSpec).                           *)
(*                                                                         *)
(* Text is modelled as a sequence of one-character strings, so that        *)
(* str.split, str.strip, int() and str.lower are computed, not assumed.    *)
(* A Python exception is a non-empty error name carried beside the value.  *)
(***************************************************************************)
EXTENDS Integers, Sequences, FiniteSets, TLC

(***************************************************************************)
(* Text                                                                    *)
(***************************************************************************)

\* "".join(seq): the string spelled by a sequence of one-character strings.
RECURSIVE Concat(_)
Concat(cs) == IF cs = <<>> THEN "" ELSE Head(cs) \o Concat(Tail(cs))

\* str.split(sep) on a sequence of characters: always at least one piece.
RECURSIVE Split(_, _)
Split(cs, sep) ==
    IF cs = <<>> THEN << <<>> >>
    ELSE LET rest == Split(Tail(cs), sep)
         IN  IF Head(cs) = sep
             THEN << <<>> >> \o rest
             ELSE << <<Head(cs)>> \o Head(rest) >> \o Tail(rest)

RECURSIVE LStrip(_)
LStrip(cs) == IF cs # <<>> /\ Head(cs) = " " THEN LStrip(Tail(cs)) ELSE cs

RECURSIVE RStrip(_)
RStrip(cs) ==
    IF cs # <<>> /\ cs[Len(cs)] = " " THEN RStrip(SubSeq(cs, 1, Len(cs) - 1)) ELSE cs

\* str.strip()
Strip(cs) == RStrip(LStrip(cs))

Digits == <<"0", "1", "2", "3", "4", "5", "6", "7", "8", "9">>

IsDigit(c) == \E d \in 1..Len(Digits) : Digits[d] = c

DigitVal(c) == (CHOOSE d \in 1..Len(Digits) : Digits[d] = c) - 1

RECURSIVE DecimalValue(_)
DecimalValue(cs) ==
    IF cs = <<>> THEN 0
    ELSE DecimalValue(SubSeq(cs, 1, Len(cs) - 1)) * 10 + DigitVal(cs[Len(cs)])

\* int(text): surrounding blanks and one leading sign are accepted, then at
\* least one decimal digit and nothing else; anything else is a ValueError.
IntParses(cs) ==
    LET s == Strip(cs)
        body == IF s # <<>> /\ Head(s) \in {"-", "+"} THEN Tail(s) ELSE s
    IN  body # <<>> /\ \A k \in 1..Len(body) : IsDigit(body[k])

IntOf(cs) ==
    LET s == Strip(cs)
        neg == s # <<>> /\ Head(s) = "-"
        body == IF s # <<>> /\ Head(s) \in {"-", "+"} THEN Tail(s) ELSE s
    IN  IF neg THEN 0 - DecimalValue(body) ELSE DecimalValue(body)

\* str.lower() over the letters the model's texts use.
LowerChar(c) ==
    CASE c = "T" -> "t" [] c = "R" -> "r" [] c = "U" -> "u" [] c = "E" -> "e"
      [] c = "F" -> "f" [] c = "A" -> "a" [] c = "L" -> "l" [] c = "S" -> "s"
      [] OTHER -> c

Lower(cs) == [k \in 1..Len(cs) |-> LowerChar(cs[k])]

(***************************************************************************)
(* Values: one record shape for every Python value a cell or a coerced     *)
(* filter value can hold.                                                  *)
(***************************************************************************)

IntV(n) == [t |-> "int", i |-> n, s |-> <<>>, b |-> FALSE]
StrV(cs) == [t |-> "str", i |-> 0, s |-> cs, b |-> FALSE]
BoolV(x) == [t |-> "bool", i |-> 0, s |-> <<>>, b |-> x]
NullV == [t |-> "null", i |-> 0, s |-> <<>>, b |-> FALSE]

\* Python truthiness of a value.
Truthy(v) ==
    CASE v.t = "int" -> v.i # 0
      [] v.t = "str" -> v.s # <<>>
      [] v.t = "bool" -> v.b
      [] OTHER -> FALSE

DEFAULT_PAGE == 0
DEFAULT_PER_PAGE == 50
FILTER_TYPES == <<"lt", "lte", "eq", "neq", "gt", "gte", "in", "not_in", "bt", "nbt">>
LIST_FILTERS == <<"in", "not_in", "bt", "nbt">>
SORT_DIRECTIONS == <<"asc", "desc">>

InSeq(x, seq) == \E k \in 1..Len(seq) : seq[k] = x

(***************************************************************************)
(* The reflected catalog (DBService.meta.tables) and the rows behind it.   *)
(* The catalog is built once by _reflect_database and only read afterwards.*)
(***************************************************************************)

NoSchema == "None"

Col(tbl, nm, ty, pk, nul, fks) ==
    [name |-> nm, table |-> tbl, type |-> ty, primary_key |-> pk,
     nullable |-> nul, foreign_keys |-> fks]

TableKeys == {"A", "other_table"}

Tables ==
    [k \in TableKeys |->
        IF k = "A"
        THEN [name |-> "A", schema |-> NoSchema,
              columns |-> << Col("A", "id", "int", TRUE, FALSE, <<>>),
                             Col("A", "name", "str", FALSE, TRUE, <<>>),
                             Col("A", "age", "int", FALSE, TRUE, <<>>),
                             Col("A", "status", "str", FALSE, TRUE, <<>>),
                             Col("A", "active", "bool", FALSE, TRUE, <<>>),
                             Col("A", "b_id", "int", FALSE, TRUE,
                                 << [name |-> "id", table_name |-> "other_table"] >>) >>]
        ELSE [name |-> "other_table", schema |-> NoSchema,
              columns |-> << Col("other_table", "id", "int", TRUE, FALSE, <<>>),
                             Col("other_table", "label", "str", FALSE, TRUE, <<>>) >>]]

Active == <<"a", "c", "t", "i", "v", "e">>
Idle == <<"i", "d", "l", "e">>

ARow(id, nm, age, st, act, bid) ==
    [c \in {"id", "name", "age", "status", "active", "b_id"} |->
        CASE c = "id" -> IntV(id)
          [] c = "name" -> StrV(nm)
          [] c = "age" -> IntV(age)
          [] c = "status" -> StrV(st)
          [] c = "active" -> BoolV(act)
          [] OTHER -> IntV(bid)]

BRow(id, lab) == [c \in {"id", "label"} |-> IF c = "id" THEN IntV(id) ELSE StrV(lab)]

\* The stored rows, in the order an unordered scan returns them.
Data ==
    [k \in TableKeys |->
        IF k = "A"
        THEN << ARow(1, <<"x">>, 40, Active, TRUE, 1),
                ARow(2, <<"y">>, 10, Active, FALSE, 2),
                ARow(3, <<"z">>, 25, Idle, TRUE, 1),
                ARow(4, <<"w">>, 35, Idle, FALSE, 3),
                ARow(5, <<"v">>, 7, Active, TRUE, 2) >>
        ELSE << BRow(1, <<"p">>), BRow(2, <<"q">>) >>]

\* dict.get(name) on the catalog: is there a table, and which.
HasTable(tables, name) == name \in DOMAIN tables

\* table.columns.get(name): is there a column, and which.
HasColumn(cols, name) == \E k \in 1..Len(cols) : cols[k].name = name

GetColumn(cols, name) == cols[CHOOSE k \in 1..Len(cols) : cols[k].name = name]

(***************************************************************************)
(* column_to_dict, table_to_dict, get_table                                *)
(***************************************************************************)

column_to_dict(column) ==
    [name |-> column.name,
     primary_key |-> column.primary_key,
     nullable |-> column.nullable,
     type |-> column.type,
     foreign_keys |-> column.foreign_keys,
     table |-> column.table]

table_to_dict(table) ==
    [name |-> table.name,
     schema |-> table.schema,
     columns |-> [k \in 1..Len(table.columns) |-> column_to_dict(table.columns[k])]]

\* DBService.get_table: the error raised ("" when it returns).
get_table_error(tables, table_name) ==
    IF HasTable(tables, table_name) THEN "" ELSE "NotFoundError"

\* The descriptor DBService.get_table returns when the lookup succeeds.
NoDescriptor == [name |-> "", schema |-> NoSchema, columns |-> <<>>]

\* DBService.get_table: [table_name, error, descriptor].
get_table(tables, table_name) ==
    IF HasTable(tables, table_name)
    THEN [table_name |-> table_name, error |-> "",
          descriptor |-> table_to_dict(tables[table_name])]
    ELSE [table_name |-> table_name, error |-> "NotFoundError", descriptor |-> NoDescriptor]

(***************************************************************************)
(* Catalogs a reflection can give.  MetaData.tables is keyed by the        *)
(* table's key: its name in the default schema, "<schema>.<name>" in any   *)
(* other.  reflect() lists the tables of the default schema and adds every *)
(* table a foreign key of theirs refers to, whatever its schema.           *)
(***************************************************************************)

table_key(table) ==
    IF table.schema = NoSchema THEN table.name ELSE table.schema \o "." \o table.name

\* Three more tables: log in the default schema, log in the schema audit,
\* and event, whose log_id refers to audit's log.
MoreTables ==
    << [name |-> "log", schema |-> NoSchema,
        columns |-> << Col("log", "id", "int", TRUE, FALSE, <<>>),
                       Col("log", "msg", "str", FALSE, TRUE, <<>>) >>],
       [name |-> "log", schema |-> "audit",
        columns |-> << Col("log", "id", "int", TRUE, FALSE, <<>>),
                       Col("log", "entry", "str", FALSE, FALSE, <<>>) >>],
       [name |-> "event", schema |-> NoSchema,
        columns |-> << Col("event", "id", "int", TRUE, FALSE, <<>>),
                       Col("event", "log_id", "int", FALSE, TRUE,
                           << [name |-> "id", table_name |-> "log"] >>) >>] >>

PoolKeys == TableKeys \cup {table_key(MoreTables[k]) : k \in 1..Len(MoreTables)}

Pool ==
    [key \in PoolKeys |->
        IF key \in TableKeys THEN Tables[key]
        ELSE MoreTables[CHOOSE k \in 1..Len(MoreTables) : table_key(MoreTables[k]) = key]]

\* The catalogs: a table comes with the tables its foreign keys refer to, and
\* a table outside the default schema only with a table that refers to it.
Catalogs ==
    {[key \in keys |-> Pool[key]] :
        keys \in {ks \in SUBSET PoolKeys :
                    /\ "A" \in ks => "other_table" \in ks
                    /\ "event" \in ks <=> "audit.log" \in ks}}

\* MetaData.sorted_tables: every table, a referred table before its referrer.
DependencyOrder == <<"other_table", "A", "log", "audit.log", "event">>

sorted_tables(tables) ==
    [k \in 1..Len(SelectSeq(DependencyOrder, LAMBDA key : key \in DOMAIN tables)) |->
        tables[SelectSeq(DependencyOrder, LAMBDA key : key \in DOMAIN tables)[k]]]

\* A dict, and d[k] = v on it.
EmptyDict == [k \in {} |-> k]

Put(d, k, v) == [x \in DOMAIN d \cup {k} |-> IF x = k THEN v ELSE d[x]]

\* if schema not in schemas: schemas[schema] = {}
with_schema(schemas, schema) ==
    IF schema \in DOMAIN schemas THEN schemas ELSE Put(schemas, schema, EmptyDict)

\* schemas[schema][table.name] = table_to_dict(table)
add_table(schemas, table) ==
    Put(schemas, table.schema, Put(schemas[table.schema], table.name, table_to_dict(table)))

\* The loop of get_tables.
RECURSIVE get_tables_loop(_, _)
get_tables_loop(tables, schemas) ==
    IF tables = <<>> THEN schemas
    ELSE get_tables_loop(Tail(tables),
                         add_table(with_schema(schemas, Head(tables).schema), Head(tables)))

\* DBService.get_tables
get_tables(tables) == get_tables_loop(sorted_tables(tables), EmptyDict)

\* The names get_table is asked for.
LookupNames == PoolKeys \cup {"nosuch"}

(***************************************************************************)
(* names_to_columns                                                        *)
(*                                                                         *)
(* A name is a sequence of pieces in which "." and " " are pieces of their *)
(* own.  With a non-empty all_tables every name is split on "." and must   *)
(* give exactly two parts (the unpacking raises ValueError otherwise, and  *)
(* the name is dropped).  An unknown table part reads .columns of          *)
(* Table(), a Table object whose initialiser never ran: bare is what that  *)
(* read does, "empty" (no column, the name is dropped) or "AttributeError".*)
(***************************************************************************)

\* A resolution that also takes a name without a separator, against
\* table_columns, when the catalog is given.
name_to_column_bare_names(column_name, table_columns, all_tables, bare) ==
    LET none == [err |-> "", found |-> FALSE, column |-> Col("", "", "", FALSE, FALSE, <<>>)]
        parts == Split(column_name, ".")
        first == Concat(Strip(parts[1]))
    IN
    IF Len(parts) = 1
    THEN IF HasColumn(table_columns, first)
         THEN [none EXCEPT !.found = TRUE, !.column = GetColumn(table_columns, first)]
         ELSE none
    ELSE IF Len(parts) # 2 THEN none
    ELSE IF ~HasTable(all_tables, first)
         THEN IF bare = "empty" THEN none ELSE [none EXCEPT !.err = "AttributeError"]
    ELSE IF HasColumn(all_tables[first].columns, Concat(Strip(parts[2])))
         THEN [none EXCEPT !.found = TRUE,
                  !.column = GetColumn(all_tables[first].columns, Concat(Strip(parts[2])))]
         ELSE none

\* One name: [err, found, column].
name_to_column(column_name, table_columns, all_tables, bare) ==
    LET none == [err |-> "", found |-> FALSE, column |-> Col("", "", "", FALSE, FALSE, <<>>)]
    IN
    IF DOMAIN all_tables # {}
    THEN LET parts == Split(column_name, ".")
         IN  IF Len(parts) # 2
             THEN none
             ELSE LET table_name == Concat(Strip(parts[1]))
                      cname == Concat(Strip(parts[2]))
                  IN  IF ~HasTable(all_tables, table_name)
                      THEN IF bare = "empty" THEN none
                           ELSE [none EXCEPT !.err = "AttributeError"]
                      ELSE IF HasColumn(all_tables[table_name].columns, cname)
                           THEN [none EXCEPT !.found = TRUE,
                                    !.column = GetColumn(all_tables[table_name].columns, cname)]
                           ELSE none
    ELSE LET nm == Concat(column_name)
         IN  IF HasColumn(table_columns, nm)
             THEN [none EXCEPT !.found = TRUE, !.column = GetColumn(table_columns, nm)]
             ELSE none

\* The loop over column_names, in iteration order: [err, columns].
RECURSIVE names_to_columns(_, _, _, _)
names_to_columns(column_names, table_columns, all_tables, bare) ==
    IF column_names = <<>> THEN [err |-> "", columns |-> <<>>]
    ELSE LET one == name_to_column(Head(column_names), table_columns, all_tables, bare)
         IN  IF one.err # "" THEN [err |-> one.err, columns |-> <<>>]
             ELSE LET rest == names_to_columns(Tail(column_names), table_columns,
                                               all_tables, bare)
                  IN  IF rest.err # "" THEN rest
                      ELSE [err |-> "",
                            columns |-> (IF one.found THEN <<one.column>> ELSE <<>>)
                                        \o rest.columns]

(***************************************************************************)
(* convert_url_value and the filter model                                  *)
(***************************************************************************)

\* convert_url_value(url_value, column): [err, value].  column.type.python_type
\* is bool, int or str; int() raises ValueError on text that is no integer.
convert_url_value(url_value, column) ==
    CASE column.type = "bool" ->
            [err |-> "", value |-> BoolV(Lower(url_value) = <<"t", "r", "u", "e">>)]
      [] column.type = "int" ->
            IF IntParses(url_value)
            THEN [err |-> "", value |-> IntV(IntOf(url_value))]
            ELSE [err |-> "ValueError", value |-> NullV]
      [] OTHER -> [err |-> "", value |-> StrV(url_value)]

\* A ColumnFilter as the boundary layer builds it: column name, kind and the
\* raw text of the value (url_value); value is set when a column is bound.
ColumnFilter(column_name, filter_type, url_value) ==
    [column_name |-> column_name, filter_type |-> filter_type, url_value |-> url_value]

\* One more converted value in the list the setter builds.
collect_value(one, rest) ==
    IF one.err # "" THEN [err |-> one.err, values |-> <<>>]
    ELSE IF rest.err # "" THEN rest
    ELSE [err |-> "", values |-> <<one.value>> \o rest.values]

RECURSIVE convert_all(_, _)
convert_all(pieces, column) ==
    IF pieces = <<>> THEN [err |-> "", values |-> <<>>]
    ELSE collect_value(convert_url_value(Head(pieces), column),
                       convert_all(Tail(pieces), column))

\* except (ValueError, TypeError): raise ValueError
reraise(r) ==
    IF r.err \in {"ValueError", "TypeError"} THEN [err |-> "ValueError", values |-> <<>>]
    ELSE r

\* convert_url_value's result as a list of one value.
single(r) == [err |-> r.err, values |-> <<r.value>>]

\* ColumnFilter.column (setter): [err, values].  A list kind splits the text on
\* ";" and converts every piece; a scalar kind converts the text as a whole
\* (values then holds that one value).  ValueError and TypeError of the
\* conversion are re-raised as ValueError.
column_setter(column_filter, column) ==
    IF InSeq(column_filter.filter_type, LIST_FILTERS)
    THEN reraise(convert_all(Split(column_filter.url_value, ";"), column))
    ELSE reraise(single(convert_url_value(column_filter.url_value, column)))

\* A predicate over one column: op applied to args, negated when neg;
\* sym is BETWEEN SYMMETRIC.
Pred(op, neg, column, args, sym) ==
    [op |-> op, neg |-> neg, col |-> column, args |-> args, sym |-> sym]

NoPred == Pred("none", FALSE, Col("", "", "", FALSE, FALSE, <<>>), <<>>, FALSE)

\* column.between(*value): ColumnOperators.between(cleft, cright,
\* symmetric=False) takes two or three positional arguments; any other number
\* is Python's TypeError for a call that does not fit the signature.
between(column, value) ==
    IF Len(value) = 2
    THEN [err |-> "", expr |-> Pred("between", FALSE, column, value, FALSE)]
    ELSE IF Len(value) = 3
         THEN [err |-> "",
               expr |-> Pred("between", FALSE, column, SubSeq(value, 1, 2), Truthy(value[3]))]
         ELSE [err |-> "TypeError", expr |-> NoPred]

\* not_(expr)
not_(expr) == [expr EXCEPT !.neg = ~expr.neg]

\* The branch of get_filter_expression on filter_type, value being the bound
\* filter's value: [err, none, expr].
filter_expression(column, filter_type, value) ==
    CASE filter_type = "lt" ->
            [err |-> "", none |-> FALSE, expr |-> Pred("lt", FALSE, column, value, FALSE)]
      [] filter_type = "lte" ->
            [err |-> "", none |-> FALSE, expr |-> Pred("lte", FALSE, column, value, FALSE)]
      [] filter_type = "eq" ->
            [err |-> "", none |-> FALSE, expr |-> Pred("eq", FALSE, column, value, FALSE)]
      [] filter_type = "neq" ->
            [err |-> "", none |-> FALSE, expr |-> Pred("neq", FALSE, column, value, FALSE)]
      [] filter_type = "gt" ->
            [err |-> "", none |-> FALSE, expr |-> Pred("gt", FALSE, column, value, FALSE)]
      [] filter_type = "gte" ->
            [err |-> "", none |-> FALSE, expr |-> Pred("gte", FALSE, column, value, FALSE)]
      [] filter_type = "in" ->
            [err |-> "", none |-> FALSE, expr |-> Pred("in", FALSE, column, value, FALSE)]
      [] filter_type = "not_in" ->
            [err |-> "", none |-> FALSE,
             expr |-> not_(Pred("in", FALSE, column, value, FALSE))]
      [] filter_type = "bt" ->
            [err |-> between(column, value).err, none |-> FALSE,
             expr |-> between(column, value).expr]
      [] filter_type = "nbt" ->
            [err |-> between(column, value).err, none |-> FALSE,
             expr |-> not_(between(column, value).expr)]
      [] OTHER -> [err |-> "", none |-> TRUE, expr |-> NoPred]

\* get_filter_expression after the binding: a ValueError of the setter is
\* caught and None returned.
bound_filter_expression(column, filter_type, bound) ==
    IF bound.err = "ValueError" THEN [err |-> "", none |-> TRUE, expr |-> NoPred]
    ELSE IF bound.err # "" THEN [err |-> bound.err, none |-> TRUE, expr |-> NoPred]
    ELSE filter_expression(column, filter_type, bound.values)

\* get_filter_expression(column, column_filter): [err, none, expr]; none is the
\* None the function returns for a filter whose binding raised ValueError.
get_filter_expression(column, column_filter) ==
    bound_filter_expression(column, column_filter.filter_type,
                            column_setter(column_filter, column))

\* One more result in the list that get_filter_expressions builds.
collect_expression(one, rest) ==
    IF one.err # "" THEN [err |-> one.err, exprs |-> <<>>]
    ELSE IF rest.err # "" THEN rest
    ELSE [err |-> "", exprs |-> (IF one.none THEN <<>> ELSE <<one.expr>>) \o rest.exprs]

\* get_filter_expressions(column, filter_list): [err, exprs], the expressions
\* that are not None, in list order; an exception ends the loop.
RECURSIVE get_filter_expressions(_, _)
get_filter_expressions(column, filter_list) ==
    IF filter_list = <<>> THEN [err |-> "", exprs |-> <<>>]
    ELSE collect_expression(get_filter_expression(column, Head(filter_list)),
                            get_filter_expressions(column, Tail(filter_list)))

(***************************************************************************)
(* Boolean clause lists.  or_ and and_ take their clauses as positional    *)
(* arguments, each of which must be an SQL expression: an argument that is *)
(* a Python list is rejected with ArgumentError.                           *)
(***************************************************************************)

\* One positional argument: an expression, or a list of expressions.
ExprArg(e) == [is_expr |-> TRUE, items |-> <<e>>]
ListArg(es) == [is_expr |-> FALSE, items |-> es]

\* An element of a WHERE or ON clause: one predicate, or a list joined by op.
Clause(op, preds) == [op |-> op, preds |-> preds]

BooleanClauseList(op, arguments) ==
    IF \E k \in 1..Len(arguments) : ~arguments[k].is_expr
    THEN [err |-> "ArgumentError", clause |-> Clause(op, <<>>)]
    ELSE [err |-> "",
          clause |-> Clause(op, [k \in 1..Len(arguments) |-> arguments[k].items[1]])]

or_(arguments) == BooleanClauseList("or", arguments)

and_(arguments) == BooleanClauseList("and", arguments)

(***************************************************************************)
(* The query under construction (a Select) and the three composers.        *)
(***************************************************************************)

NoJoin ==
    [left |-> "", right |-> "", onclause |-> Clause("and", <<>>), isouter |-> FALSE]

\* select(columns)
select(columns) ==
    [columns |-> columns, has_limit |-> FALSE, limit |-> 0, offset |-> 0,
     where |-> <<>>, order_by |-> <<>>, joined |-> FALSE, from_obj |-> NoJoin]

\* A pagination whose offset is the page index itself.
apply_pagination_offset_page(query, page, per_page) ==
    IF per_page > -1
    THEN [query EXCEPT !.has_limit = TRUE, !.limit = per_page, !.offset = page]
    ELSE query

\* query.limit(per_page).offset(page * per_page) when per_page > -1.
apply_pagination(query, page, per_page) ==
    IF per_page > -1
    THEN [query EXCEPT !.has_limit = TRUE, !.limit = per_page, !.offset = page * per_page]
    ELSE query

\* query.where(clause): one more conjunct of the WHERE clause.
where(query, clause) == [query EXCEPT !.where = Append(@, clause)]

\* The where clause apply_column_filters adds for the expressions of one
\* column: [err, query].
add_filter_expressions(query, fe) ==
    IF fe.err # "" THEN [err |-> fe.err, query |-> query]
    ELSE IF Len(fe.exprs) = 0 THEN [err |-> "", query |-> query]
    ELSE IF Len(fe.exprs) = 1
    THEN [err |-> "", query |-> where(query, Clause("pred", <<fe.exprs[1]>>))]
    ELSE IF or_(<<ListArg(fe.exprs)>>).err # ""
    THEN [err |-> or_(<<ListArg(fe.exprs)>>).err, query |-> query]
    ELSE [err |-> "", query |-> where(query, or_(<<ListArg(fe.exprs)>>).clause)]

\* The body of the loop of apply_column_filters for one item of the dict:
\* [err, query].
apply_filter_item(table, query, item) ==
    IF ~HasColumn(table.columns, item.column_name)
    THEN [err |-> "", query |-> query]
    ELSE add_filter_expressions(
             query,
             get_filter_expressions(GetColumn(table.columns, item.column_name),
                                    item.filter_list))

RECURSIVE apply_column_filters(_, _, _)

\* The rest of the loop after one item.
continue_filters(table, r, filters) ==
    IF r.err # "" THEN r ELSE apply_column_filters(table, r.query, filters)

\* apply_column_filters(table, query, filters): [err, query].  filters is the
\* dict as its items, (column_name, filter_list), in iteration order.
apply_column_filters(table, query, filters) ==
    IF filters = <<>> THEN [err |-> "", query |-> query]
    ELSE continue_filters(table, apply_filter_item(table, query, Head(filters)),
                          Tail(filters))

ColumnSort(column_name, direction) == [column_name |-> column_name, direction |-> direction]

\* query.order_by(asc(column)) / query.order_by(desc(column))
order_by(query, column, direction) ==
    [query EXCEPT !.order_by = Append(@, [col |-> column, direction |-> direction])]

\* apply_column_sorts(table, query, sorts)
RECURSIVE apply_column_sorts(_, _, _)
apply_column_sorts(table, query, sorts) ==
    IF sorts = <<>> THEN query
    ELSE LET sort == Head(sorts)
             q == IF HasColumn(table.columns, sort.column_name)
                     /\ (sort.direction = "asc" \/ sort.direction = "desc")
                  THEN order_by(query, GetColumn(table.columns, sort.column_name),
                                sort.direction)
                  ELSE query
         IN  apply_column_sorts(table, q, Tail(sorts))

ColumnPair(from_column, to_column) == [from_column |-> from_column, to_column |-> to_column]

TableJoin(table_name, column_pairs, outer_join) ==
    [table_name |-> table_name, column_pairs |-> column_pairs, outer_join |-> outer_join]

NoTable(name) == "Invalid join. Table with name \"" \o name \o "\" does not exist."

NoColumn(column, table) ==
    "Invalid join, \"" \o column \o "\" is not a column on table \"" \o table \o "\""

\* The loop with the two tests of a pair exchanged: to_col before from_col.
RECURSIVE join_conditions_target_first(_, _, _)
join_conditions_target_first(table, join_table, column_pairs) ==
    IF column_pairs = <<>> THEN [err |-> "", msg |-> "", conditions |-> <<>>]
    ELSE IF ~HasColumn(join_table.columns, Head(column_pairs).to_column)
    THEN [err |-> "ValueError",
          msg |-> NoColumn(Head(column_pairs).to_column, join_table.name),
          conditions |-> <<>>]
    ELSE IF ~HasColumn(table.columns, Head(column_pairs).from_column)
    THEN [err |-> "ValueError",
          msg |-> NoColumn(Head(column_pairs).from_column, table.name),
          conditions |-> <<>>]
    ELSE [join_conditions_target_first(table, join_table, Tail(column_pairs))
             EXCEPT !.conditions =
                 IF join_conditions_target_first(table, join_table, Tail(column_pairs)).err # ""
                 THEN <<>>
                 ELSE <<[from_col |-> GetColumn(table.columns, Head(column_pairs).from_column),
                         to_col |-> GetColumn(join_table.columns, Head(column_pairs).to_column)]>>
                      \o @]

\* The loop of apply_join over the column pairs: [err, msg, conditions].
RECURSIVE join_conditions(_, _, _)
join_conditions(table, join_table, column_pairs) ==
    IF column_pairs = <<>> THEN [err |-> "", msg |-> "", conditions |-> <<>>]
    ELSE LET column_pair == Head(column_pairs)
         IN  IF ~HasColumn(table.columns, column_pair.from_column)
             THEN [err |-> "ValueError",
                   msg |-> NoColumn(column_pair.from_column, table.name),
                   conditions |-> <<>>]
             ELSE IF ~HasColumn(join_table.columns, column_pair.to_column)
             THEN [err |-> "ValueError",
                   msg |-> NoColumn(column_pair.to_column, join_table.name),
                   conditions |-> <<>>]
             ELSE LET rest == join_conditions(table, join_table, Tail(column_pairs))
                      cond == [from_col |-> GetColumn(table.columns, column_pair.from_column),
                               to_col |-> GetColumn(join_table.columns, column_pair.to_column)]
                  IN  IF rest.err # "" THEN rest
                      ELSE [rest EXCEPT !.conditions = <<cond>> \o @]

\* apply_join(query, tables, table, join): [err, msg, query].
apply_join(query, tables, table, join) ==
    IF ~HasTable(tables, join.table_name)
    THEN [err |-> "ValueError", msg |-> NoTable(join.table_name), query |-> query]
    ELSE LET join_table == tables[join.table_name]
             jc == join_conditions(table, join_table, join.column_pairs)
             on == and_([k \in 1..Len(jc.conditions) |-> ExprArg(jc.conditions[k])])
         IN  IF jc.err # "" THEN [err |-> jc.err, msg |-> jc.msg, query |-> query]
             ELSE IF on.err # "" THEN [err |-> on.err, msg |-> "", query |-> query]
             ELSE [err |-> "", msg |-> "",
                   query |-> [query EXCEPT !.joined = TRUE,
                                 !.from_obj = [left |-> table.name,
                                               right |-> join_table.name,
                                               onclause |-> on.clause,
                                               isouter |-> join.outer_join]]]

(***************************************************************************)
(* The database: what conn.execute(query) returns for a Select.            *)
(* A result row maps the key "<table>.<column>" of every column of the     *)
(* FROM relation to its cell.                                              *)
(***************************************************************************)

\* column.table.name + '.' + column.name
full_column_name(column) == column.table \o "." \o column.name

TableColumnKeys(t) == {full_column_name(Tables[t].columns[k]) : k \in 1..Len(Tables[t].columns)}

\* A stored row of table t under qualified keys.
Qualified(t, row) ==
    [key \in TableColumnKeys(t) |->
        LET c == CHOOSE k \in 1..Len(Tables[t].columns) :
                     full_column_name(Tables[t].columns[k]) = key
        IN  row[Tables[t].columns[c].name]]

TableRows(t) == [k \in 1..Len(Data[t]) |-> Qualified(t, Data[t][k])]

NullRow(t) == [key \in TableColumnKeys(t) |-> NullV]

Merge(r1, r2) ==
    [key \in DOMAIN r1 \cup DOMAIN r2 |-> IF key \in DOMAIN r1 THEN r1[key] ELSE r2[key]]

Alphabet ==
    <<"0", "1", "2", "3", "4", "5", "6", "7", "8", "9", ";", "a", "b", "c", "d", "e",
      "f", "g", "h", "i", "j", "k", "l", "m", "n", "o", "p", "q", "r", "s", "t", "u",
      "v", "w", "x", "y", "z">>

CharRank(c) == CHOOSE k \in 1..Len(Alphabet) : Alphabet[k] = c

RECURSIVE TextLess(_, _)
TextLess(a, b) ==
    IF b = <<>> THEN FALSE
    ELSE IF a = <<>> THEN TRUE
    ELSE IF Head(a) = Head(b) THEN TextLess(Tail(a), Tail(b))
    ELSE CharRank(Head(a)) < CharRank(Head(b))

\* a < b and a = b on two non-null values of one type.
ValueLess(a, b) ==
    CASE a.t = "int" -> a.i < b.i
      [] a.t = "str" -> TextLess(a.s, b.s)
      [] OTHER -> ~a.b /\ b.b

ValueEq(a, b) == a = b

ValueLte(a, b) == ValueLess(a, b) \/ ValueEq(a, b)

\* A predicate on a row; a comparison with NULL selects nothing.
EvalPred(p, row) ==
    LET cell == row[full_column_name(p.col)]
        lo == IF p.sym /\ ValueLess(p.args[2], p.args[1]) THEN p.args[2] ELSE p.args[1]
        hi == IF p.sym /\ ValueLess(p.args[2], p.args[1]) THEN p.args[1] ELSE p.args[2]
        plain ==
            CASE p.op = "lt" -> ValueLess(cell, p.args[1])
              [] p.op = "lte" -> ValueLte(cell, p.args[1])
              [] p.op = "eq" -> ValueEq(cell, p.args[1])
              [] p.op = "neq" -> ~ValueEq(cell, p.args[1])
              [] p.op = "gt" -> ValueLess(p.args[1], cell)
              [] p.op = "gte" -> ValueLte(p.args[1], cell)
              [] p.op = "in" -> \E k \in 1..Len(p.args) : ValueEq(cell, p.args[k])
              [] p.op = "between" -> ValueLte(lo, cell) /\ ValueLte(cell, hi)
              [] OTHER -> FALSE
    IN  IF cell.t = "null" THEN FALSE ELSE IF p.neg THEN ~plain ELSE plain

EvalClause(clause, row) ==
    CASE clause.op = "or" -> \E k \in 1..Len(clause.preds) : EvalPred(clause.preds[k], row)
      [] OTHER -> \A k \in 1..Len(clause.preds) : EvalPred(clause.preds[k], row)

\* The ON clause of a join on a pair of rows.
EvalOn(on, lrow, rrow) ==
    \A k \in 1..Len(on.preds) :
        LET l == lrow[full_column_name(on.preds[k].from_col)]
            r == rrow[full_column_name(on.preds[k].to_col)]
        IN  l.t # "null" /\ r.t # "null" /\ ValueEq(l, r)

RECURSIVE SelectSeq2(_, _, _)
SelectSeq2(rows, on, lrow) ==
    IF rows = <<>> THEN <<>>
    ELSE (IF EvalOn(on, lrow, Head(rows)) THEN <<Merge(lrow, Head(rows))>> ELSE <<>>)
         \o SelectSeq2(Tail(rows), on, lrow)

\* left JOIN right ON on, LEFT OUTER when isouter.
RECURSIVE JoinRows(_, _, _, _, _)
JoinRows(lrows, rrows, on, isouter, right) ==
    IF lrows = <<>> THEN <<>>
    ELSE LET matched == SelectSeq2(rrows, on, Head(lrows))
         IN  (IF matched = <<>> /\ isouter
              THEN <<Merge(Head(lrows), NullRow(right))>>
              ELSE matched)
             \o JoinRows(Tail(lrows), rrows, on, isouter, right)

\* The tables a Select without select_from reads: those of its columns and of
\* its WHERE clause, each once, in order of first mention.
RECURSIVE Uniq(_)
Uniq(names) ==
    IF names = <<>> THEN <<>>
    ELSE LET rest == Uniq(SubSeq(names, 1, Len(names) - 1))
         IN  IF InSeq(names[Len(names)], rest) THEN rest ELSE Append(rest, names[Len(names)])

RECURSIVE ClauseTables(_)
ClauseTables(clauses) ==
    IF clauses = <<>> THEN <<>>
    ELSE [k \in 1..Len(Head(clauses).preds) |-> Head(clauses).preds[k].col.table]
         \o ClauseTables(Tail(clauses))

FromTables(query) ==
    Uniq([k \in 1..Len(query.columns) |-> query.columns[k].table] \o ClauseTables(query.where))

\* The cross product of the rows of the listed tables.
RECURSIVE CrossRows(_)
CrossRows(names) ==
    IF names = <<>> THEN << [key \in {} |-> NullV] >>
    ELSE LET rest == CrossRows(SubSeq(names, 1, Len(names) - 1))
             last == TableRows(names[Len(names)])
         IN  JoinRows(rest, last, Clause("and", <<>>), FALSE, names[Len(names)])

RECURSIVE Extra(_, _)
Extra(names, covered) ==
    IF names = <<>> THEN <<>>
    ELSE (IF Head(names) \in covered THEN <<>> ELSE <<Head(names)>>) \o Extra(Tail(names), covered)

\* The rows of the FROM relation.
FromRows(query) ==
    IF query.joined
    THEN LET j == query.from_obj
             joined == JoinRows(TableRows(j.left), TableRows(j.right), j.onclause,
                                j.isouter, j.right)
             more == CrossRows(Extra(FromTables(query), {j.left, j.right}))
         IN  JoinRows(joined, more, Clause("and", <<>>), FALSE, "")
    ELSE CrossRows(FromTables(query))

RECURSIVE Filtered(_, _)
Filtered(rows, clauses) ==
    IF rows = <<>> THEN <<>>
    ELSE (IF \A k \in 1..Len(clauses) : EvalClause(clauses[k], Head(rows))
          THEN <<Head(rows)>> ELSE <<>>)
         \o Filtered(Tail(rows), clauses)

\* r1 sorts strictly before r2 under the ORDER BY terms.
RECURSIVE RowBefore(_, _, _)
RowBefore(r1, r2, terms) ==
    IF terms = <<>> THEN FALSE
    ELSE LET a == r1[full_column_name(Head(terms).col)]
             b == r2[full_column_name(Head(terms).col)]
         IN  IF ValueEq(a, b) THEN RowBefore(r1, r2, Tail(terms))
             ELSE IF Head(terms).direction = "asc" THEN ValueLess(a, b) ELSE ValueLess(b, a)

RECURSIVE InsertRow(_, _, _)
InsertRow(row, sorted, terms) ==
    IF sorted = <<>> THEN <<row>>
    ELSE IF RowBefore(row, Head(sorted), terms) THEN <<row>> \o sorted
    ELSE <<Head(sorted)>> \o InsertRow(row, Tail(sorted), terms)

\* ORDER BY: rows that compare equal keep the order of the scan.
RECURSIVE Ordered(_, _)
Ordered(rows, terms) ==
    IF rows = <<>> THEN <<>>
    ELSE InsertRow(rows[Len(rows)], Ordered(SubSeq(rows, 1, Len(rows) - 1), terms), terms)

Min(a, b) == IF a < b THEN a ELSE b

\* LIMIT limit OFFSET offset
Window(rows, query) ==
    IF query.has_limit
    THEN SubSeq(rows, query.offset + 1, Min(Len(rows), query.offset + query.limit))
    ELSE rows

\* The tables of the FROM relation.
FromSet(query) ==
    {FromTables(query)[k] : k \in 1..Len(FromTables(query))}
        \cup (IF query.joined THEN {query.from_obj.left, query.from_obj.right} ELSE {})

\* The database rejects (ProgrammingError) a join of a table with itself under
\* one name, an ON condition that compares columns of different types, and an
\* ORDER BY on a table that is not in the FROM relation.
QueryRejected(query) ==
    \/ /\ query.joined
       /\ \/ query.from_obj.left = query.from_obj.right
          \/ \E k \in 1..Len(query.from_obj.onclause.preds) :
                 query.from_obj.onclause.preds[k].from_col.type
                     # query.from_obj.onclause.preds[k].to_col.type
    \/ \E k \in 1..Len(query.order_by) : query.order_by[k].col.table \notin FromSet(query)

\* conn.execute(query), when the database accepts the query.
Execute(query) == Window(Ordered(Filtered(FromRows(query), query.where), query.order_by), query)

\* The body of the loop over the result: one shaped row.
shape_row(row, columns) ==
    [key \in {full_column_name(columns[k]) : k \in 1..Len(columns)} |-> row[key]]

(***************************************************************************)
(* Calls of DBService.query_table                                          *)
(***************************************************************************)

MaxPage == 2
MaxPerPage == 2

\* An optional argument: given is FALSE for None.
None == [given |-> FALSE, value |-> <<>>]
Some(v) == [given |-> TRUE, value |-> v]

\* Projections: the names of the column_names set in its iteration order.
Projections ==
    { None,
      Some(<<>>),
      Some(<< <<"name">> >>),
      Some(<< <<"A", ".", "name">> >>),
      Some(<< <<"name">>, <<"other_table", ".", "label">> >>),
      Some(<< <<"A", ".", "name">>, <<"other_table", ".", "label">> >>),
      Some(<< <<"other_table", ".", "label">>, <<"A", ".", "name">> >>),
      Some(<< <<" ", "A", " ", ".", " ", "age", " ">>, <<"A", ".", "name">> >>),
      Some(<< <<"other_table", ".", "label">> >>),
      Some(<< <<"nosuch", ".", "x">> >>),
      Some(<< <<"A", ".", "nosuch">> >>),
      Some(<< <<"A", ".", "name", ".", "x">> >>) }

CoreProjections ==
    { None, Some(<<>>), Some(<< <<"A", ".", "name">>, <<"other_table", ".", "label">> >>) }

Pages == DEFAULT_PAGE..MaxPage
PerPages == -1..MaxPerPage

FilterItem(column_name, filter_list) ==
    [column_name |-> column_name, filter_list |-> filter_list]

gt30 == ColumnFilter("age", "gt", <<"3", "0">>)
lt18 == ColumnFilter("age", "lt", <<"1", "8">>)
eqActive == ColumnFilter("status", "eq", Active)
eqAbc == ColumnFilter("age", "eq", <<"a", "b", "c">>)

\* Filters: the items of the filters dict in its iteration order.
ValidFilters ==
    { Some(<<>>),
      Some(<<FilterItem("age", <<gt30>>), FilterItem("status", <<eqActive>>)>>),
      Some(<<FilterItem("age", <<eqAbc>>)>>),
      Some(<<FilterItem("age", <<gt30, eqAbc>>)>>),
      Some(<<FilterItem("nosuch", <<ColumnFilter("nosuch", "eq", <<"1">>)>>)>>),
      Some(<<FilterItem("age", <<ColumnFilter("age", "bt", <<"1", "0", ";", "5">>)>>)>>),
      Some(<<FilterItem("age", <<ColumnFilter("age", "bt", <<"5", ";", "1", "0">>)>>)>>),
      Some(<<FilterItem("age", <<ColumnFilter("age", "nbt", <<"5", ";", "1", "0">>)>>)>>),
      Some(<<FilterItem("age", <<ColumnFilter("age", "bt", <<"5", ";", "x">>)>>)>>),
      Some(<<FilterItem("age", <<ColumnFilter("age", "in", <<"1", "0", ";", "2", "5">>)>>)>>),
      Some(<<FilterItem("age", <<ColumnFilter("age", "not_in", <<"1", "0", ";", "2", "5">>)>>)>>),
      Some(<<FilterItem("active", <<ColumnFilter("active", "eq", <<"T", "r", "u", "e">>)>>)>>),
      Some(<<FilterItem("name", <<ColumnFilter("name", "gte", <<"x">>)>>)>>) }

\* Filters of every kind of trouble: several predicates on one column, and
\* between filters whose text does not split into two values.
Filters ==
    {None} \cup ValidFilters \cup
    { Some(<<FilterItem("age", <<gt30, lt18>>)>>),
      Some(<<FilterItem("age", <<gt30, lt18>>), FilterItem("status", <<eqActive>>)>>),
      Some(<<FilterItem("age", <<ColumnFilter("age", "bt", <<"5">>)>>)>>),
      Some(<<FilterItem("age", <<ColumnFilter("age", "nbt", <<"5">>)>>)>>),
      Some(<<FilterItem("age", <<ColumnFilter("age", "bt", <<"1", "0", ";", "5", ";", "1">>)>>)>>),
      Some(<<FilterItem("age", <<ColumnFilter("age", "bt", <<"1", "0", ";", "5", ";", "0">>)>>)>>),
      Some(<<FilterItem("age", <<ColumnFilter("age", "nbt", <<"1", "0", ";", "5", ";", "1">>)>>)>>),
      Some(<<FilterItem("age",
               <<ColumnFilter("age", "bt", <<"1", ";", "2", ";", "3", ";", "4">>)>>)>>) }

CoreFilters ==
    { None,
      Some(<<FilterItem("age", <<gt30>>), FilterItem("status", <<eqActive>>)>>),
      Some(<<FilterItem("age", <<ColumnFilter("age", "bt", <<"5">>)>>)>>) }

Sorts ==
    { None,
      Some(<<>>),
      Some(<<ColumnSort("age", "desc")>>),
      Some(<<ColumnSort("nosuch", "asc"), ColumnSort("status", "asc"),
             ColumnSort("age", "asc")>>),
      Some(<<ColumnSort("age", "up")>>) }

CoreSorts == { None, Some(<<ColumnSort("age", "desc")>>) }

NoneJoin == [given |-> FALSE, value |-> TableJoin("", <<>>, FALSE)]

Joins ==
    { NoneJoin,
      Some(TableJoin("other_table", <<ColumnPair("b_id", "id")>>, FALSE)),
      Some(TableJoin("other_table", <<ColumnPair("b_id", "id")>>, TRUE)),
      Some(TableJoin("nosuch", <<ColumnPair("b_id", "id")>>, FALSE)),
      Some(TableJoin("other_table", <<ColumnPair("nope", "id")>>, FALSE)),
      Some(TableJoin("other_table", <<ColumnPair("b_id", "nope")>>, FALSE)),
      Some(TableJoin("other_table", <<ColumnPair("bad_from", "bad_to")>>, FALSE)),
      Some(TableJoin("other_table",
                     <<ColumnPair("b_id", "id"), ColumnPair("b_id", "bad_to"),
                       ColumnPair("bad_from", "id")>>, TRUE)),
      Some(TableJoin("other_table", <<ColumnPair("name", "id")>>, FALSE)),
      Some(TableJoin("A", <<ColumnPair("b_id", "id")>>, FALSE)) }

CoreJoins ==
    { NoneJoin,
      Some(TableJoin("other_table", <<ColumnPair("b_id", "id")>>, FALSE)),
      Some(TableJoin("nosuch", <<ColumnPair("b_id", "id")>>, FALSE)) }

CorePaging == { <<DEFAULT_PAGE, -1>>, <<1, MaxPerPage>> }

\* Every page and page size up to the bounds, and the defaults of query_table.
Paging == (Pages \X PerPages) \cup {<<DEFAULT_PAGE, DEFAULT_PER_PAGE>>}

TableNames == {"A", "nosuch"}

Args(t, cn, pg, f, so, j) ==
    [table_name |-> t, column_names |-> cn, page |-> pg[1], per_page |-> pg[2],
     filters |-> f, sorts |-> so, join |-> j]

\* The calls made: each argument ranges over all its values while the others
\* range over their core values.
Calls ==
    {Args(t, cn, pg, f, so, j) :
        t \in TableNames, cn \in CoreProjections, pg \in CorePaging, f \in CoreFilters,
        so \in CoreSorts, j \in CoreJoins}
    \cup {Args("A", cn, pg, f, so, j) :
        cn \in Projections, pg \in CorePaging, f \in CoreFilters,
        so \in CoreSorts, j \in CoreJoins}
    \cup {Args("A", cn, pg, f, so, j) :
        cn \in CoreProjections, pg \in Paging, f \in CoreFilters,
        so \in CoreSorts, j \in CoreJoins}
    \cup {Args("A", cn, pg, f, so, j) :
        cn \in CoreProjections, pg \in CorePaging, f \in Filters,
        so \in CoreSorts, j \in CoreJoins}
    \cup {Args("A", cn, pg, f, so, j) :
        cn \in CoreProjections, pg \in CorePaging, f \in CoreFilters,
        so \in Sorts, j \in CoreJoins}
    \cup {Args("A", cn, pg, f, so, j) :
        cn \in CoreProjections, pg \in CorePaging, f \in CoreFilters,
        so \in CoreSorts, j \in Joins}

(***************************************************************************)
(* query_table as the sequence of its steps.                               *)
(*   pc        the step the call is at ("idle": no call in progress)       *)
(*   call      the arguments of the call                                   *)
(*   table     the local table: the name found in the catalog, or "None"   *)
(*   columns   the local columns                                           *)
(*   query     the local query                                             *)
(*   conn      connections this call holds                                 *)
(*   result    what conn.execute returned                                  *)
(*   rows      the local rows                                              *)
(*   outcome   how the call ended: what it returned or raised              *)
(*   steps     the steps taken so far, in order                            *)
(*   connects  connections acquired, executed: queries executed            *)
(***************************************************************************)
VARIABLES pc, call, table, columns, query, conn, result, rows, outcome, steps,
          connects, executed

(***************************************************************************)
(* The catalog and the calls that read it.                                 *)
(*   meta      the reflected catalog (self.meta.tables)                    *)
(*   schemas   what the last get_tables call returned, if one was made     *)
(*   lookup    the last get_table call: its name and how it ended          *)
(***************************************************************************)
VARIABLES meta, schemas, lookup

catalog_vars == <<meta, schemas, lookup>>

vars == <<pc, call, table, columns, query, conn, result, rows, outcome, steps,
          connects, executed, meta, schemas, lookup>>

query_vars == <<pc, call, table, columns, query, conn, result, rows, outcome, steps,
                connects, executed>>

NotListed == [listed |-> FALSE, value |-> EmptyDict]

NoLookup == [asked |-> FALSE, table_name |-> "", error |-> "", descriptor |-> NoDescriptor]

NoCall == Args("", None, <<DEFAULT_PAGE, DEFAULT_PER_PAGE>>, None, None, NoneJoin)

NoOutcome == [kind |-> "none", error |-> "", msg |-> "", shape |-> "none", column_data |-> <<>>]

Raised(error, msg) ==
    [kind |-> "raise", error |-> error, msg |-> msg, shape |-> "none", column_data |-> <<>>]

\* return []
ReturnedList ==
    [kind |-> "return", error |-> "", msg |-> "", shape |-> "list", column_data |-> <<>>]

\* return rows, column_data
ReturnedPair(column_data) ==
    [kind |-> "return", error |-> "", msg |-> "", shape |-> "pair",
     column_data |-> column_data]

\* A block that keeps the connection open when it is left.
release_never(held) == held

\* Leaving the with block, normally or by an exception, closes the connection.
release(held) == held - 1

Init ==
    /\ pc = "idle"
    /\ call = NoCall
    /\ table = "None"
    /\ columns = <<>>
    /\ query = select(<<>>)
    /\ conn = 0
    /\ result = <<>>
    /\ rows = <<>>
    /\ outcome = NoOutcome
    /\ steps = <<>>
    /\ connects = 0
    /\ executed = 0
    /\ meta = Tables
    /\ schemas = NotListed
    /\ lookup = NoLookup

\* A caller invokes query_table.
Call ==
    /\ pc = "idle"
    /\ \E c \in Calls : call' = c
    /\ pc' = "table"
    /\ UNCHANGED <<table, columns, query, conn, result, rows, outcome, steps,
                   connects, executed>>
    /\ UNCHANGED catalog_vars

\* table = self.meta.tables.get(table_name, None); rows = []
ResolveTable ==
    /\ pc = "table"
    /\ table' = IF HasTable(Tables, call.table_name) THEN call.table_name ELSE "None"
    /\ rows' = <<>>
    /\ steps' = Append(steps, "table")
    /\ pc' = "projection"
    /\ UNCHANGED <<call, columns, query, conn, result, outcome, connects, executed>>
    /\ UNCHANGED catalog_vars

\* The projection, and the return of [] when it is empty.  table.columns is
\* read in both branches, which raises AttributeError on None.
ResolveProjection ==
    /\ pc = "projection"
    /\ steps' = Append(steps, "projection")
    /\ \E bare \in {"empty", "AttributeError"} :
         LET r == IF call.column_names.given
                  THEN names_to_columns(call.column_names.value, Tables[table].columns,
                                        Tables, bare)
                  ELSE [err |-> "", columns |-> Tables[table].columns]
         IN  IF table = "None"
             THEN /\ outcome' = Raised("AttributeError", "")
                  /\ pc' = "done"
                  /\ UNCHANGED columns
             ELSE IF r.err # ""
             THEN /\ outcome' = Raised(r.err, "")
                  /\ pc' = "done"
                  /\ UNCHANGED columns
             ELSE /\ columns' = r.columns
                  /\ IF Len(r.columns) = 0
                     THEN outcome' = ReturnedList /\ pc' = "done"
                     ELSE UNCHANGED outcome /\ pc' = "pagination"
    /\ UNCHANGED <<call, table, query, conn, result, rows, connects, executed>>
    /\ UNCHANGED catalog_vars

\* query = select(columns), and the limit and offset.
ApplyPagination ==
    /\ pc = "pagination"
    /\ query' = apply_pagination(select(columns), call.page, call.per_page)
    /\ steps' = Append(steps, "pagination")
    /\ pc' = "filters"
    /\ UNCHANGED <<call, table, columns, conn, result, rows, outcome, connects, executed>>
    /\ UNCHANGED catalog_vars

ApplyFilters ==
    /\ pc = "filters"
    /\ steps' = Append(steps, "filters")
    /\ LET r == IF call.filters.given
                THEN apply_column_filters(Tables[table], query, call.filters.value)
                ELSE [err |-> "", query |-> query]
       IN  IF r.err # ""
           THEN /\ outcome' = Raised(r.err, "")
                /\ pc' = "done"
                /\ UNCHANGED query
           ELSE /\ query' = r.query
                /\ pc' = "sorts"
                /\ UNCHANGED outcome
    /\ UNCHANGED <<call, table, columns, conn, result, rows, connects, executed>>
    /\ UNCHANGED catalog_vars

ApplySorts ==
    /\ pc = "sorts"
    /\ steps' = Append(steps, "sorts")
    /\ query' = IF call.sorts.given
                THEN apply_column_sorts(Tables[table], query, call.sorts.value)
                ELSE query
    /\ pc' = "join"
    /\ UNCHANGED <<call, table, columns, conn, result, rows, outcome, connects, executed>>
    /\ UNCHANGED catalog_vars

ApplyJoin ==
    /\ pc = "join"
    /\ steps' = Append(steps, "join")
    /\ LET r == IF call.join.given
                THEN apply_join(query, Tables, Tables[table], call.join.value)
                ELSE [err |-> "", msg |-> "", query |-> query]
       IN  IF r.err # ""
           THEN /\ outcome' = Raised(r.err, r.msg)
                /\ pc' = "done"
                /\ UNCHANGED query
           ELSE /\ query' = r.query
                /\ pc' = "connect"
                /\ UNCHANGED outcome
    /\ UNCHANGED <<call, table, columns, conn, result, rows, connects, executed>>
    /\ UNCHANGED catalog_vars

\* with self.db.connect() as conn: the pool hands out a connection, or the
\* database cannot be reached and connect raises.
Connect ==
    /\ pc = "connect"
    /\ steps' = Append(steps, "connect")
    /\ \/ /\ conn' = conn + 1
          /\ connects' = connects + 1
          /\ pc' = "execute"
          /\ UNCHANGED outcome
       \/ /\ outcome' = Raised("OperationalError", "")
          /\ pc' = "done"
          /\ UNCHANGED <<conn, connects>>
    /\ UNCHANGED <<call, table, columns, query, result, rows, executed>>
    /\ UNCHANGED catalog_vars

\* result = conn.execute(query): the rows, or an exception when the database
\* rejects the query or fails; the exception leaves the with block.
ExecuteQuery ==
    /\ pc = "execute"
    /\ steps' = Append(steps, "execute")
    /\ executed' = executed + 1
    /\ \/ /\ ~QueryRejected(query)
          /\ result' = Execute(query)
          /\ pc' = "shape"
          /\ UNCHANGED <<conn, outcome>>
       \/ /\ outcome' = Raised(IF QueryRejected(query) THEN "ProgrammingError"
                               ELSE "OperationalError", "")
          /\ conn' = release(conn)
          /\ pc' = "done"
          /\ UNCHANGED result
    /\ UNCHANGED <<call, table, columns, query, rows, connects>>
    /\ UNCHANGED catalog_vars

\* The loop over the result, one mapping per row; fetching may fail part way.
\* The with block ends after the loop.
ShapeRows ==
    /\ pc = "shape"
    /\ steps' = Append(steps, "shape")
    /\ conn' = release(conn)
    /\ \/ /\ rows' = [k \in 1..Len(result) |-> shape_row(result[k], columns)]
          /\ pc' = "describe"
          /\ UNCHANGED outcome
       \/ /\ result # <<>>
          /\ outcome' = Raised("OperationalError", "")
          /\ pc' = "done"
          /\ UNCHANGED rows
    /\ UNCHANGED <<call, table, columns, query, result, connects, executed>>
    /\ UNCHANGED catalog_vars

\* column_data = [column_to_dict(column) for column in columns]; return both.
Describe ==
    /\ pc = "describe"
    /\ steps' = Append(steps, "describe")
    /\ outcome' = ReturnedPair([k \in 1..Len(columns) |-> column_to_dict(columns[k])])
    /\ pc' = "done"
    /\ UNCHANGED <<call, table, columns, query, conn, result, rows, connects, executed>>
    /\ UNCHANGED catalog_vars

\* The call has ended; nothing of it is kept for the next one.
Finish ==
    /\ pc = "done"
    /\ pc' = "idle"
    /\ call' = NoCall
    /\ table' = "None"
    /\ columns' = <<>>
    /\ query' = select(<<>>)
    /\ result' = <<>>
    /\ rows' = <<>>
    /\ outcome' = NoOutcome
    /\ steps' = <<>>
    /\ connects' = 0
    /\ executed' = 0
    /\ UNCHANGED conn
    /\ UNCHANGED catalog_vars

Next ==
    \/ Call
    \/ ResolveTable
    \/ ResolveProjection
    \/ ApplyPagination
    \/ ApplyFilters
    \/ ApplySorts
    \/ ApplyJoin
    \/ Connect
    \/ ExecuteQuery
    \/ ShapeRows
    \/ Describe
    \/ Finish

Spec == Init /\ [][Next]_vars

(***************************************************************************)
(* The catalog calls on a service whose reflection gave any of Catalogs.   *)
(***************************************************************************)

CatalogInit ==
    /\ Init!1 /\ Init!2 /\ Init!3 /\ Init!4 /\ Init!5 /\ Init!6
    /\ Init!7 /\ Init!8 /\ Init!9 /\ Init!10 /\ Init!11 /\ Init!12
    /\ meta \in Catalogs
    /\ schemas = NotListed
    /\ lookup = NoLookup

\* A caller invokes get_tables.
GetTables ==
    /\ schemas' = [listed |-> TRUE, value |-> get_tables(meta)]
    /\ UNCHANGED <<meta, lookup>>
    /\ UNCHANGED query_vars

\* A caller invokes get_table.
GetTable ==
    /\ \E table_name \in LookupNames :
         lookup' = [asked |-> TRUE, table_name |-> table_name,
                    error |-> get_table(meta, table_name).error,
                    descriptor |-> get_table(meta, table_name).descriptor]
    /\ UNCHANGED <<meta, schemas>>
    /\ UNCHANGED query_vars

CatalogNext ==
    \/ GetTables
    \/ GetTable

CatalogSpec == CatalogInit /\ [][CatalogNext]_vars

(***************************************************************************)
(* Properties                                                              *)
(***************************************************************************)

Last(seq) == seq[Len(seq)]

\* The step at which the call ended.
EndedAt(step) == pc = "done" /\ steps # <<>> /\ Last(steps) = step

TableExists == call.table_name \in TableKeys

Range(seq) == {seq[k] : k \in 1..Len(seq)}

\* The filters of the call, one by one, with the column each is bound to when
\* the primary table has it.
CallFilters ==
    IF call.filters.given
    THEN UNION {Range(call.filters.value[k].filter_list) : k \in 1..Len(call.filters.value)}
    ELSE {}

(***************************************************************************)
(* C1.  apply_column_filters composes the WHERE clause column by column:   *)
(* for each column of the filters mapping that exists on the table, its    *)
(* valid predicates (those whose binding did not fail) are OR-ed when      *)
(* there are two or more, taken as is when there is one and add nothing    *)
(* when there is none; the results of different columns are AND-ed.        *)
(* Stated for the calls in which every predicate can be built, so that     *)
(* only the composition is in question.                                    *)
(***************************************************************************)

\* What the claim makes of one column's valid predicates.
ClaimedClause(exprs) ==
    IF Len(exprs) = 0 THEN <<>>
    ELSE IF Len(exprs) = 1 THEN <<Clause("pred", exprs)>>
    ELSE <<Clause("or", exprs)>>

RECURSIVE ClaimedWhere(_, _)
ClaimedWhere(tbl, items) ==
    IF items = <<>> THEN <<>>
    ELSE (IF HasColumn(tbl.columns, Head(items).column_name)
          THEN ClaimedClause(
                   get_filter_expressions(GetColumn(tbl.columns, Head(items).column_name),
                                          Head(items).filter_list).exprs)
          ELSE <<>>)
         \o ClaimedWhere(tbl, Tail(items))

\* Every predicate of the call's filters can be built.
PredicatesBuild ==
    \A k \in 1..Len(call.filters.value) :
        HasColumn(Tables[table].columns, call.filters.value[k].column_name)
        => get_filter_expressions(
               GetColumn(Tables[table].columns, call.filters.value[k].column_name),
               call.filters.value[k].filter_list).err = ""

C1_OrWithinAndAcross ==
    (InSeq("filters", steps) /\ call.filters.given /\ PredicatesBuild)
    => /\ ~(EndedAt("filters") /\ outcome.kind = "raise")
       /\ query.where = ClaimedWhere(Tables[table], call.filters.value)

(***************************************************************************)
(* C2.  A malformed filter or sort never aborts query_table: for an        *)
(* existing table, a non-empty projection and no join, whatever the        *)
(* filters' column names, raw values and number of ";"-separated values,   *)
(* and whatever the sorts' column names, the call does not raise in the    *)
(* filter or sort step, and goes on to execute the query.  Stated for      *)
(* filters with one predicate per column, where nothing has to be OR-ed.   *)
(***************************************************************************)

OneFilterPerColumn ==
    call.filters.given
    => \A k \in 1..Len(call.filters.value) : Len(call.filters.value[k].filter_list) <= 1

C2_MalformedNeverAborts ==
    (TableExists /\ ~call.join.given /\ OneFilterPerColumn /\ pc = "done"
        /\ InSeq("filters", steps))
    => /\ ~(outcome.kind = "raise" /\ (Last(steps) = "filters" \/ Last(steps) = "sorts"))
       /\ InSeq("connect", steps)

(***************************************************************************)
(* C3.  With an explicit projection, a name without a qualifier separator  *)
(* is resolved against the primary table's own columns and a name of the   *)
(* form table.column against the full catalog: projecting name and         *)
(* other_table.label on table A yields rows whose keys are exactly         *)
(* "A.name" and "other_table.label".                                       *)
(***************************************************************************)

\* The name with its blanks removed.
Squeeze(name) == SelectSeq(name, LAMBDA piece : piece # " ")

\* The keys the claim gives the names of a projection on the primary table.
KeysOfNames(names, primary, unqualified) ==
    {key \in UNION {TableColumnKeys(t) : t \in TableKeys} :
        \E n \in 1..Len(names) : \E t \in TableKeys : \E k \in 1..Len(Tables[t].columns) :
            /\ key = t \o "." \o Tables[t].columns[k].name
            /\ \/ Squeeze(names[n]) = <<t, ".", Tables[t].columns[k].name>>
               \/ unqualified /\ t = primary
                    /\ Squeeze(names[n]) = <<Tables[t].columns[k].name>>}

\* The keys of the rows and of the descriptors a call returned.
ReturnedKeys == {outcome.column_data[k].table \o "." \o outcome.column_data[k].name :
                    k \in 1..Len(outcome.column_data)}

RowsHaveKeys(keys) == \A k \in 1..Len(rows) : DOMAIN rows[k] = keys

\* The claim as stated: unqualified names count, against the primary table.
C3_UnqualifiedAgainstPrimary ==
    (outcome.shape = "pair" /\ call.column_names.given)
    => /\ ReturnedKeys = KeysOfNames(call.column_names.value, call.table_name, TRUE)
       /\ RowsHaveKeys(KeysOfNames(call.column_names.value, call.table_name, TRUE))

\* As the code has it: only the names that read table.column count, each
\* against the full catalog; a name without a separator is dropped.
C3_OnlyQualifiedNames ==
    (outcome.kind = "return" /\ call.column_names.given)
    => /\ ReturnedKeys = KeysOfNames(call.column_names.value, call.table_name, FALSE)
       /\ RowsHaveKeys(KeysOfNames(call.column_names.value, call.table_name, FALSE))
       /\ {full_column_name(columns[k]) : k \in 1..Len(columns)}
              = KeysOfNames(call.column_names.value, call.table_name, FALSE)

\* The projection of the claim's example across a join came back with rows.
C3_Witness ==
    /\ outcome.shape = "pair"
    /\ call.column_names = Some(<< <<"name">>, <<"other_table", ".", "label">> >>)
    /\ call.join.given
    /\ rows # <<>>
    /\ RowsHaveKeys({"other_table.label"})

(***************************************************************************)
(* C4.  A join is strict: when the join's target table is not in the       *)
(* catalog, or a ColumnPair names a source column missing on the primary   *)
(* table or a target column missing on the target table, query_table       *)
(* aborts with an invalid-join error naming the offending column and       *)
(* table (source before target within a pair, pairs in the order           *)
(* supplied), before any connection is acquired or query executed.         *)
(***************************************************************************)

ColumnNames(t) == {Tables[t].columns[k].name : k \in 1..Len(Tables[t].columns)}

\* The pairs of a join on the primary table that name a missing column.
BadPairs(primary, j) ==
    {k \in 1..Len(j.column_pairs) :
        \/ j.column_pairs[k].from_column \notin ColumnNames(primary)
        \/ j.column_pairs[k].to_column \notin ColumnNames(j.table_name)}

JoinInvalid(primary, j) == j.table_name \notin TableKeys \/ BadPairs(primary, j) # {}

FirstBadPair(primary, j) ==
    j.column_pairs[CHOOSE k \in BadPairs(primary, j) : \A m \in BadPairs(primary, j) : k <= m]

\* The offender the error names.
ExpectedJoinMsg(primary, j) ==
    IF j.table_name \notin TableKeys THEN NoTable(j.table_name)
    ELSE IF FirstBadPair(primary, j).from_column \notin ColumnNames(primary)
         THEN NoColumn(FirstBadPair(primary, j).from_column, primary)
         ELSE NoColumn(FirstBadPair(primary, j).to_column, j.table_name)

InvalidJoinGiven ==
    TableExists /\ call.join.given /\ JoinInvalid(call.table_name, call.join.value)

\* The claim as stated: every call with an invalid join ends in that error.
C4_InvalidJoinAlwaysAborts ==
    (InvalidJoinGiven /\ pc = "done")
    => /\ outcome = Raised("ValueError", ExpectedJoinMsg(call.table_name, call.join.value))
       /\ connects = 0
       /\ executed = 0

\* As the code has it: the join is examined only by a call that reaches the
\* join step, after the projection, the filters and the sorts; a call whose
\* projection resolves no column, or that an earlier step ends, never
\* examines it.  A call that reaches the step ends there with the error that
\* names the first offender, and no call with an invalid join acquires a
\* connection or executes a query.
C4_StrictJoinWhenReached ==
    InvalidJoinGiven
    => /\ conn = 0 /\ connects = 0 /\ executed = 0
       /\ InSeq("join", steps)
            => /\ pc = "done" /\ Last(steps) = "join"
               /\ outcome = Raised("ValueError",
                                   ExpectedJoinMsg(call.table_name, call.join.value))
       /\ (pc = "done" /\ ~InSeq("join", steps))
            => \/ outcome = ReturnedList /\ Last(steps) = "projection"
               \/ outcome.kind = "raise" /\ Last(steps) \in {"projection", "filters"}
       /\ (pc = "sorts" \/ pc = "join") => ~InSeq("join", steps)

\* A join whose second pair is the first offender, by its target column,
\* ended the call at the join step.
C4_Witness ==
    /\ pc = "done"
    /\ InvalidJoinGiven
    /\ Len(call.join.value.column_pairs) = 3
    /\ Last(steps) = "join"
    /\ outcome = Raised("ValueError", NoColumn("bad_to", "other_table"))

(***************************************************************************)
(* C5.  A row limit and offset are applied only when page_size is not the  *)
(* unlimited sentinel -1; with page_size = -1 all matching rows are        *)
(* returned whatever the page index; for every page >= 0 and               *)
(* page_size >= 0 the query carries limit page_size and offset             *)
(* page * page_size, so the call returns rows page*page_size+1 ..          *)
(* (page+1)*page_size of the filtered and ordered result.                  *)
(***************************************************************************)

\* The filtered and ordered result of the call's query, unpaginated.
AllMatching == Ordered(Filtered(FromRows(query), query.where), query.order_by)

\* The positions page*page_size+1 .. (page+1)*page_size that full has.
PagePositions(full, page, page_size) ==
    {n \in 1..Len(full) : page * page_size + 1 <= n /\ n <= (page + 1) * page_size}

\* returned is full at these positions, in order.
IsPageOf(returned, full, page, page_size) ==
    /\ Len(returned) = Cardinality(PagePositions(full, page, page_size))
    /\ \A k \in 1..Len(returned) :
           returned[k] = shape_row(full[page * page_size + k], columns)

IsAllOf(returned, full) ==
    /\ Len(returned) = Len(full)
    /\ \A k \in 1..Len(returned) : returned[k] = shape_row(full[k], columns)

C5_Pagination ==
    /\ InSeq("pagination", steps)
         => /\ query.has_limit <=> call.per_page # -1
            /\ call.per_page >= 0
                 => query.limit = call.per_page /\ query.offset = call.page * call.per_page
    /\ outcome.shape = "pair"
         => IF call.per_page = -1
            THEN IsAllOf(rows, AllMatching)
            ELSE IsPageOf(rows, AllMatching, call.page, call.per_page)

\* A page after the first came back full, from an ordered result that has
\* rows before it and after it.
C5_Witness ==
    /\ outcome.shape = "pair"
    /\ call.page = 1 /\ call.per_page = 2
    /\ call.sorts.given /\ query.order_by # <<>>
    /\ Len(rows) = 2
    /\ Len(AllMatching) = 5
    /\ rows[1] = shape_row(AllMatching[3], columns)

(***************************************************************************)
(* C6.  In every query_table call the connection is acquired only at the   *)
(* Execute step, after table, projection, pagination, filters, sorts and   *)
(* join have been resolved in that order; the call holds at most one       *)
(* connection and releases it on every exit path, also when the execution  *)
(* of the query or the shaping of the rows raises; no call ends holding a  *)
(* connection.                                                             *)
(***************************************************************************)

BeforeExecute ==
    <<"table", "projection", "pagination", "filters", "sorts", "join", "connect">>

C6_ConnectionScoped ==
    /\ conn \in {0, 1}
    /\ connects <= 1
    /\ connects = 1 => Len(steps) >= 7 /\ SubSeq(steps, 1, 7) = BeforeExecute
    /\ conn = 1 => connects = 1 /\ (pc = "execute" \/ pc = "shape")
    /\ executed > 0 => connects = 1
    /\ (pc = "done" \/ pc = "idle" \/ pc = "describe") => conn = 0

\* The execution of the query raised and the call ended without a connection.
C6_Witness ==
    /\ pc = "done"
    /\ outcome.kind = "raise"
    /\ Last(steps) = "execute"
    /\ connects = 1
    /\ conn = 0

(***************************************************************************)
(* C7.  When the explicit projection given to query_table is empty, or     *)
(* none of its names resolves to a column, the call returns an empty       *)
(* result set immediately: no filter, sort or join is applied, no          *)
(* connection is acquired and no query is executed.                        *)
(***************************************************************************)

NothingResolves ==
    /\ call.column_names.given
    /\ KeysOfNames(call.column_names.value, call.table_name, FALSE) = {}

C7_EmptyProjectionShortCircuits ==
    (TableExists /\ NothingResolves /\ pc = "done")
    => /\ outcome.kind = "return"
       /\ rows = <<>>
       /\ steps = <<"table", "projection">>
       /\ connects = 0
       /\ executed = 0

(***************************************************************************)
(* C8.  Every query_table call that returns without error returns a pair   *)
(* (rows, column descriptors): each row is a mapping whose key set is      *)
(* exactly the "<table>.<column>" of the projected columns, and the        *)
(* second component holds one descriptor per projected column, in          *)
(* projection order.                                                       *)
(***************************************************************************)

C8_ReturnsPair ==
    outcome.kind = "return"
    => /\ outcome.shape = "pair"
       /\ RowsHaveKeys({full_column_name(columns[k]) : k \in 1..Len(columns)})
       /\ outcome.column_data = [k \in 1..Len(columns) |-> column_to_dict(columns[k])]

(***************************************************************************)
(* C9.  query_table called with a table name absent from the catalog       *)
(* fails as the catalog lookup get_table does for that name, with the      *)
(* NotFound condition, whatever projection, filters, sorts or join are     *)
(* supplied, and without executing any query.                              *)
(***************************************************************************)

C9_AbsentTableNotFound ==
    (~TableExists /\ pc = "done")
    => /\ outcome.kind = "raise"
       /\ outcome.error = get_table_error(Tables, call.table_name)
       /\ executed = 0

(***************************************************************************)
(* C10.  Between and not-between filters consume exactly two values, in    *)
(* the order supplied: a between predicate of the WHERE clause comes from  *)
(* a bt (nbt) filter whose raw value splits on ";" into exactly two        *)
(* elements, and is column BETWEEN low AND high (negated for nbt) with     *)
(* low and high as supplied; a raw value with any other number of          *)
(* elements yields no between predicate.                                   *)
(***************************************************************************)

\* The predicates of the WHERE clause.
WherePreds == UNION {Range(query.where[k].preds) : k \in 1..Len(query.where)}

\* p is the plain between of filter f: its two values, as supplied.
BetweenOf(p, f) ==
    /\ f.filter_type \in {"bt", "nbt"}
    /\ p.neg = (f.filter_type = "nbt")
    /\ p.col.name = f.column_name
    /\ Len(Split(f.url_value, ";")) = 2
    /\ p.args = [k \in 1..2 |-> convert_url_value(Split(f.url_value, ";")[k], p.col).value]
    /\ ~p.sym

C10_BetweenTakesTwo ==
    \A p \in WherePreds :
        p.op = "between" => \E f \in CallFilters : BetweenOf(p, f)

(***************************************************************************)
(* C11.  Catalog round trip: for every table that appears in the result of *)
(* get_tables() under any schema key, get_table with that table's name     *)
(* succeeds and returns a descriptor identical to the one embedded in the  *)
(* get_tables() result for that table; and get_table fails with NotFound   *)
(* exactly for the names that appear under no schema in get_tables().      *)
(***************************************************************************)

\* The schema keys under which get_tables listed a table of this name.
ListedUnder(table_name) ==
    {schema \in DOMAIN schemas.value : table_name \in DOMAIN schemas.value[schema]}

C11_CatalogRoundTrip ==
    (schemas.listed /\ lookup.asked)
    => /\ lookup.error = "NotFoundError" <=> ListedUnder(lookup.table_name) = {}
       /\ lookup.error # "NotFoundError" => lookup.error = ""
       /\ \A schema \in ListedUnder(lookup.table_name) :
              lookup.descriptor = schemas.value[schema][lookup.table_name]

====
